---- MODULE Spec2Model ----
(***************************************************************************)
(* Model of the DOI ingestion pipeline of Anytype Bibliography Manager:    *)
(* run_pipeline (pipeline.py), DOIIngestionService (services/metadata.py), *)
(* AnytypeDuplicateDetector (services/dedup.py), AnytypeClient and         *)
(* AnytypePublisher (services/anytype.py) and the record model (models.py).*)
(*                                                                         *)
(* Strings are sequences of one-character strings, so that strip(),        *)
(* lower(), int() and the regular expressions are computed, not assumed.   *)
(***************************************************************************)
EXTENDS Integers, Sequences, FiniteSets, TLC

(***************************************************************************)
(* Bounds of the model.                                                    *)
(***************************************************************************)
\* Number of operator prompts after which the model stops asking.
MaxPrompts == 3
\* Longest raw result list a single search returns in the model.
MaxResults == 2

(***************************************************************************)
(* Python values.                                                          *)
(***************************************************************************)
\* An optional value: Python's None (also what dict.get() gives for an absent
\* key), or a value that is present.
None == [none |-> TRUE]
Some(x) == [none |-> FALSE, val |-> x]
\* Truthiness of an optional string: None and "" are falsy.
Truthy(o) == (~o.none) /\ o.val # <<>>

UpperChars == <<"A","B","C","D","E","F","G","H","I","J","K","L","M",
                "N","O","P","Q","R","S","T","U","V","W","X","Y","Z">>
LowerChars == <<"a","b","c","d","e","f","g","h","i","j","k","l","m",
                "n","o","p","q","r","s","t","u","v","w","x","y","z">>
DigitChars == <<"0","1","2","3","4","5","6","7","8","9">>

Range(f) == {f[i] : i \in DOMAIN f}

Whitespace == {" ", "\t", "\n"}

\* str.lower() on one character, then on a string.
LowerChar(c) ==
    IF c \in Range(UpperChars)
    THEN LowerChars[CHOOSE i \in DOMAIN UpperChars : UpperChars[i] = c]
    ELSE c

Lower(s) == [i \in DOMAIN s |-> LowerChar(s[i])]

\* str.strip(): drop leading and trailing whitespace.
RECURSIVE LStrip(_)
LStrip(s) ==
    IF s # <<>> /\ Head(s) \in Whitespace THEN LStrip(Tail(s)) ELSE s

RECURSIVE RStrip(_)
RStrip(s) ==
    IF s # <<>> /\ s[Len(s)] \in Whitespace
    THEN RStrip(SubSeq(s, 1, Len(s) - 1))
    ELSE s

Strip(s) == RStrip(LStrip(s))

DigitValue(c) == (CHOOSE i \in DOMAIN DigitChars : DigitChars[i] = c) - 1

RECURSIVE DigitsValue(_)
DigitsValue(s) ==
    IF s = <<>> THEN 0
    ELSE 10 * DigitsValue(SubSeq(s, 1, Len(s) - 1)) + DigitValue(s[Len(s)])

AllDigits(s) == s # <<>> /\ \A i \in DOMAIN s : s[i] \in Range(DigitChars)

\* int(text): [ok |-> FALSE] stands for ValueError.
ParseInt(text) ==
    LET s == Strip(text) IN
    IF s # <<>> /\ Head(s) \in {"+", "-"}
    THEN IF AllDigits(Tail(s))
         THEN [ok |-> TRUE,
               value |-> IF Head(s) = "-" THEN 0 - DigitsValue(Tail(s))
                         ELSE DigitsValue(Tail(s))]
         ELSE [ok |-> FALSE, value |-> 0]
    ELSE IF AllDigits(s)
         THEN [ok |-> TRUE, value |-> DigitsValue(s)]
         ELSE [ok |-> FALSE, value |-> 0]

\* str(n) for an integer n >= 0.
RECURSIVE DecimalStr(_)
DecimalStr(n) ==
    IF n < 10 THEN <<DigitChars[n + 1]>>
    ELSE DecimalStr(n \div 10) \o <<DigitChars[(n % 10) + 1]>>

\* str(n) for any integer.
IntStr(n) == IF n < 0 THEN <<"-">> \o DecimalStr(0 - n) ELSE DecimalStr(n)

\* sep.join(parts)
RECURSIVE Join(_, _)
Join(sep, parts) ==
    IF parts = <<>> THEN <<>>
    ELSE IF Len(parts) = 1 THEN Head(parts)
    ELSE Head(parts) \o sep \o Join(sep, Tail(parts))

\* The characters matched by the regular expression class [A-Za-z0-9].
IsAlnum(c) == c \in Range(UpperChars) \cup Range(LowerChars) \cup Range(DigitChars)

(***************************************************************************)
(* models.py: Author and BibliographicRecord.                              *)
(* A non-ASCII code point is written as a token such as "i-acute".         *)
(***************************************************************************)
AsciiPunct == {" ", "\t", "\n", ".", "/", "-", ",", ";", ":", "'", "_", "+",
               "{", "}", "=", "@"}

IsAscii(c) == IsAlnum(c) \/ c \in AsciiPunct

\* unicodedata.normalize("NFD", c) with the combining marks (category Mn)
\* removed: the base character of a precomposed letter.  A code point
\* without decomposition is left as it is.
NfdBase(c) ==
    CASE c = "a-acute" -> "a"
      [] c = "i-acute" -> "i"
      [] c = "e-grave" -> "e"
      [] c = "u-umlaut" -> "u"
      [] c = "C-cedilla" -> "C"
      [] OTHER -> c

\* "".join(ch for ch in s if ch is ASCII): encode("ascii", "ignore").
RECURSIVE AsciiOnly(_)
AsciiOnly(s) ==
    IF s = <<>> THEN <<>>
    ELSE IF IsAscii(Head(s)) THEN <<Head(s)>> \o AsciiOnly(Tail(s))
    ELSE AsciiOnly(Tail(s))

\* Author.family_ascii()
family_ascii(author) ==
    LET stripped == [i \in DOMAIN author.family |-> NfdBase(author.family[i])]
        ascii_name == AsciiOnly(stripped)
    IN  IF ascii_name # <<>> THEN ascii_name ELSE author.family

\* Author.display_name(): a given name that is None or "" is falsy.
display_name(author) ==
    IF Truthy(author.given)
    THEN author.family \o <<",", " ">> \o author.given.val
    ELSE author.family

\* BibliographicRecord.first_author()
first_author(record) ==
    IF record.authors # <<>> THEN Some(record.authors[1]) ELSE None

\* BibliographicRecord.formatted_authors()
formatted_authors(record) ==
    Join(<<" ", "a", "n", "d", " ">>,
         [i \in DOMAIN record.authors |-> display_name(record.authors[i])])

\* re.search(r"[A-Za-z0-9]+", title): the leftmost maximal alphanumeric run.
RECURSIVE AlnumPrefix(_)
AlnumPrefix(s) ==
    IF s # <<>> /\ IsAlnum(Head(s)) THEN <<Head(s)>> \o AlnumPrefix(Tail(s))
    ELSE <<>>

RECURSIVE title_first_word(_)
title_first_word(title) ==
    IF title = <<>> THEN <<"T", "i", "t", "l", "e">>
    ELSE IF IsAlnum(Head(title)) THEN AlnumPrefix(title)
    ELSE title_first_word(Tail(title))

\* re.sub(r"[^A-Za-z0-9]+", "", s)
RECURSIVE KeepAlnum(_)
KeepAlnum(s) ==
    IF s = <<>> THEN <<>>
    ELSE IF IsAlnum(Head(s)) THEN <<Head(s)>> \o KeepAlnum(Tail(s))
    ELSE KeepAlnum(Tail(s))

\* Mutant: the final re.sub is missing.
citation_key_unfiltered(record) ==
    LET author == first_author(record)
        last_name == IF ~author.none THEN family_ascii(author.val)
                     ELSE <<"u", "n", "k", "n", "o", "w", "n">>
        year_str == IntStr(record.year)
    IN  last_name \o year_str \o title_first_word(record.title)

\* BibliographicRecord.citation_key()
citation_key(record) ==
    LET author == first_author(record)
        last_name == IF ~author.none THEN family_ascii(author.val)
                     ELSE <<"u", "n", "k", "n", "o", "w", "n">>
        year_str == IntStr(record.year)
    IN  KeepAlnum(last_name \o year_str \o title_first_word(record.title))

\* str.replace(old, new): every non-overlapping occurrence, left to right.
IsPrefix(p, s) == Len(p) <= Len(s) /\ SubSeq(s, 1, Len(p)) = p

RECURSIVE Replace(_, _, _)
Replace(s, old, new) ==
    IF s = <<>> THEN <<>>
    ELSE IF old # <<>> /\ IsPrefix(old, s)
    THEN new \o Replace(SubSeq(s, Len(old) + 1, Len(s)), old, new)
    ELSE <<Head(s)>> \o Replace(Tail(s), old, new)

(***************************************************************************)
(* JSON values as the code sees them after response.json(): a kind k and a *)
(* value v.  A dict is a function from its keys; dict.get(key) of an       *)
(* absent key is null.  A string whose characters the code never inspects  *)
(* (a vocabulary word) is kept as one token.                               *)
(***************************************************************************)
JNull == [k |-> "null"]
JStr(s) == [k |-> "str", v |-> s]
\* A str that is one token: a vocabulary word, never the empty string.
JTok(t) == [k |-> "tok", v |-> t]
JInt(n) == [k |-> "int", v |-> n]
JList(xs) == [k |-> "list", v |-> xs]
JDict(f) == [k |-> "dict", v |-> f]
EmptyDict == JDict(<<>>)

Get(d, key) == IF key \in DOMAIN d.v THEN d.v[key] ELSE JNull
GetDefault(d, key, default) == IF key \in DOMAIN d.v THEN d.v[key] ELSE default

\* Python truthiness of a JSON value.
Falsy(j) ==
    \/ j.k = "null"
    \/ j.k \in {"str", "list"} /\ Len(j.v) = 0
    \/ j.k = "tok" /\ j.v = ""
    \/ j.k = "dict" /\ DOMAIN j.v = {}
    \/ j.k = "int" /\ j.v = 0

\* An Optional[str] field of the record from a JSON value.
OptOf(j) == IF j.k = "null" THEN None ELSE Some(j.v)

(***************************************************************************)
(* Exceptions.  A function of the code returns Ok(value) or Raise(type,    *)
(* message).                                                               *)
(***************************************************************************)
Ok(x) == [ok |-> TRUE, value |-> x]
Raise(type, msg) == [ok |-> FALSE, type |-> type, msg |-> msg]

(***************************************************************************)
(* services/metadata.py: the static extraction helpers.                    *)
(***************************************************************************)
\* DOIIngestionService._extract_title
extract_title(message) ==
    LET got == Get(message, "title")
        titles == IF Falsy(got) THEN JList(<<>>) ELSE got
    IN  IF titles.k = "list" /\ titles.v # <<>> THEN Ok(titles.v[1].v)
        ELSE IF titles.k = "str" THEN Ok(titles.v)
        ELSE Raise("MetadataRetrievalError",
                   <<"Title information missing in CrossRef response">>)

YearKeys == <<"published-print", "published-online", "issued">>

\* int(x) of the first component of a date: null is a TypeError.
IntOf(j) ==
    IF j.k = "int" THEN Ok(j.v)
    ELSE IF j.k = "str" THEN
        (IF ParseInt(j.v).ok THEN Ok(ParseInt(j.v).value)
         ELSE Raise("ValueError", <<"invalid literal for int()">>))
    ELSE Raise("TypeError", <<"int() argument must be a string or a number">>)

\* DOIIngestionService._extract_year, from the i-th candidate key on.
RECURSIVE extract_year_from(_, _)
extract_year_from(message, i) ==
    IF i > Len(YearKeys)
    THEN Raise("MetadataRetrievalError",
               <<"Year information missing in CrossRef response">>)
    ELSE LET field == GetDefault(message, YearKeys[i], EmptyDict) IN
         IF field.k # "dict"
         THEN Raise("AttributeError", <<"object has no attribute 'get'">>)
         ELSE LET date_parts == Get(field, "date-parts") IN
              IF (~Falsy(date_parts)) /\ date_parts.k = "list"
                 /\ ~Falsy(date_parts.v[1])
              THEN IntOf(date_parts.v[1].v[1])
              ELSE extract_year_from(message, i + 1)

extract_year(message) == extract_year_from(message, 1)

OrcidPrefix == <<"h","t","t","p","s",":","/","/","o","r","c","i","d",".","o","r","g","/">>

\* One pass of the loop of _extract_authors over a dict entry.
AuthorOf(entry) ==
    [family |-> Get(entry, "family").v,
     given |-> OptOf(Get(entry, "given")),
     orcid |-> IF Get(entry, "ORCID").k = "str"
               THEN Some(Replace(Get(entry, "ORCID").v, OrcidPrefix, <<>>))
               ELSE None]

\* An entry is kept when it is a dict with a truthy family name.
HasFamily(entry) == entry.k = "dict" /\ ~Falsy(Get(entry, "family"))

RECURSIVE AuthorsOf(_)
AuthorsOf(entries) ==
    IF entries = <<>> THEN <<>>
    ELSE IF HasFamily(Head(entries))
    THEN <<AuthorOf(Head(entries))>> \o AuthorsOf(Tail(entries))
    ELSE AuthorsOf(Tail(entries))

\* DOIIngestionService._extract_authors
extract_authors(message) ==
    LET got == Get(message, "author")
    IN  IF Falsy(got) THEN <<>> ELSE AuthorsOf(got.v)

\* The shared shape of _extract_journal and _extract_short_journal.
FirstOrString(container) ==
    IF container.k = "list" /\ container.v # <<>> THEN Some(container.v[1].v)
    ELSE IF container.k = "str" THEN Some(container.v)
    ELSE None

\* DOIIngestionService._extract_journal
extract_journal(message) == FirstOrString(Get(message, "container-title"))

\* DOIIngestionService._extract_short_journal
extract_short_journal(message) ==
    FirstOrString(Get(message, "short-container-title"))

\* DOIIngestionService._map_crossref_type
map_crossref_type(ref_type) ==
    LET key == IF Falsy(ref_type) THEN "" ELSE ref_type.v
    IN  CASE key = "journal-article" -> "article"
          [] key = "book" -> "book"
          [] key = "proceedings-article" -> "inproceedings"
          [] OTHER -> "misc"

(***************************************************************************)
(* What the metadata source can answer to the lookup.                      *)
(*   unreachable   httpx.get raises a transport error (an httpx.HTTPError) *)
(*   status        raise_for_status() raises httpx.HTTPStatusError         *)
(*   invalid_json  response.json() raises a ValueError                     *)
(*   json          the decoded body                                        *)
(***************************************************************************)
Unreachable == [k |-> "unreachable"]
BadStatus == [k |-> "status"]
InvalidJson == [k |-> "invalid_json"]
Body(j) == [k |-> "json", body |-> j]

\* The part of fetch_metadata after the HTTP exchange (lines 67-89).
record_of(normalized_doi, payload) ==
    IF payload.k # "dict"
    THEN Raise("AttributeError", <<"object has no attribute 'get'">>)
    ELSE
    LET message == Get(payload, "message") IN
    IF Falsy(message)
    THEN Raise("MetadataRetrievalError",
               <<"CrossRef response missing 'message' payload">>)
    ELSE
    LET title == extract_title(message)
        year == extract_year(message)
    IN  IF ~title.ok THEN title
        ELSE IF ~year.ok THEN year
        ELSE Ok([doi |-> GetDefault(message, "DOI", JStr(normalized_doi)).v,
                 title |-> title.value,
                 entry_type |-> map_crossref_type(Get(message, "type")),
                 year |-> year.value,
                 authors |-> extract_authors(message),
                 journal |-> extract_journal(message),
                 short_journal |-> extract_short_journal(message),
                 publisher |-> OptOf(Get(message, "publisher"))])

\* Mutant: the DOI is not stripped before it is tested.
fetch_metadata_unstripped(doi, response) ==
    IF doi = <<>>
    THEN [issued |-> FALSE,
          result |-> Raise("MetadataRetrievalError", <<"DOI cannot be empty.">>)]
    ELSE [issued |-> TRUE,
          result |->
            IF response.k \in {"unreachable", "status"}
            THEN Raise("MetadataRetrievalError",
                       <<"Failed to retrieve metadata for DOI ">> \o doi)
            ELSE IF response.k = "invalid_json"
            THEN Raise("JSONDecodeError", <<"Expecting value">>)
            ELSE record_of(doi, response.body)]

\* DOIIngestionService.fetch_metadata, given what the source answers.
\* issued tells whether the HTTP request was sent.
fetch_metadata(doi, response) ==
    LET normalized_doi == Strip(doi) IN
    IF normalized_doi = <<>>
    THEN [issued |-> FALSE,
          result |-> Raise("MetadataRetrievalError", <<"DOI cannot be empty.">>)]
    ELSE [issued |-> TRUE,
          result |->
            IF response.k \in {"unreachable", "status"}
            THEN Raise("MetadataRetrievalError",
                       <<"Failed to retrieve metadata for DOI ">> \o normalized_doi)
            ELSE IF response.k = "invalid_json"
            THEN Raise("JSONDecodeError", <<"Expecting value">>)
            ELSE record_of(normalized_doi, response.body)]

(***************************************************************************)
(* DOIIngestionService.generate_bibtex.  The entry is a string; the entry  *)
(* type is one token of it.                                                *)
(***************************************************************************)
\* str.rstrip(","): drop every trailing comma.
RECURSIVE RStripComma(_)
RStripComma(s) ==
    IF s # <<>> /\ s[Len(s)] = ","
    THEN RStripComma(SubSeq(s, 1, Len(s) - 1))
    ELSE s

\* Mutant: the publisher is emitted whatever the entry type.
bibtex_fields_any_publisher(record) ==
    <<  <<"title", <<"{", "{", " ">> \o record.title \o <<" ", "}", "}">> >>,
        <<"author", formatted_authors(record)>>,
        <<"year", IntStr(record.year)>>,
        <<"doi", record.doi>> >>
    \o (IF Truthy(record.journal)
        THEN << <<"journal", record.journal.val>> >> ELSE <<>>)
    \o (IF Truthy(record.publisher)
        THEN << <<"publisher", record.publisher.val>> >> ELSE <<>>)

\* The fields dict, in insertion order, as <<key, value>> pairs.
bibtex_fields(record) ==
    <<  <<"title", <<"{", "{", " ">> \o record.title \o <<" ", "}", "}">> >>,
        <<"author", formatted_authors(record)>>,
        <<"year", IntStr(record.year)>>,
        <<"doi", record.doi>> >>
    \o (IF Truthy(record.journal)
        THEN << <<"journal", record.journal.val>> >> ELSE <<>>)
    \o (IF Truthy(record.publisher) /\ record.entry_type = "book"
        THEN << <<"publisher", record.publisher.val>> >> ELSE <<>>)

\* f"  {key} = {{{value}}},"
field_line(key, value) ==
    <<" ", " ", key, " ", "=", " ", "{">> \o value \o <<"}", ",">>

\* The loop appending one line per field with a truthy value.
RECURSIVE field_lines(_)
field_lines(fields) ==
    IF fields = <<>> THEN <<>>
    ELSE IF Head(fields)[2] # <<>>
    THEN <<field_line(Head(fields)[1], Head(fields)[2])>> \o field_lines(Tail(fields))
    ELSE field_lines(Tail(fields))

\* The list lines of generate_bibtex just before "\n".join(lines).
bibtex_lines(record) ==
    LET header == <<"@", record.entry_type, "{">> \o citation_key(record) \o <<",">>
        lines == <<header>> \o field_lines(bibtex_fields(record))
        fixed == IF Len(lines) > 1
                 THEN [lines EXCEPT ![Len(lines)] = RStripComma(lines[Len(lines)])]
                 ELSE lines
    IN  fixed \o << <<"}">> >>

generate_bibtex(record) == Join(<<"\n">>, bibtex_lines(record))

(***************************************************************************)
(* config.py: the settings, with the defaults of load_settings.            *)
(***************************************************************************)
Settings ==
    [anytype_object_type_article |-> "Article",
     anytype_object_type_book |-> "Book",
     anytype_field_doi |-> "doi",
     anytype_field_year |-> "year",
     anytype_field_authors |-> "authors",
     anytype_field_journal |-> "journal",
     anytype_field_short_journal |-> "short_journal",
     anytype_field_bibtex |-> "bibtex",
     anytype_author_separator |-> <<";", " ">>,
     anytype_file_relation_key |-> "attachments"]

(***************************************************************************)
(* services/anytype.py                                                     *)
(***************************************************************************)
\* A 2xx response without content.
EmptyBody == [k |-> "empty"]

\* AnytypeClient._parse_response
parse_response(response) ==
    CASE response.k = "status" ->
            Raise("AnytypeAPIError", <<"Client error for url">>)
      [] response.k = "invalid_json" ->
            Raise("AnytypeAPIError", <<"Anytype API returned invalid JSON">>)
      [] response.k = "empty" -> Ok(EmptyDict)
      [] OTHER -> Ok(response.body)

\* httpx.post / httpx.patch followed by _parse_response, as every method of
\* AnytypeClient does: when the store is unreachable the httpx call itself
\* raises and _parse_response is never entered.
send(response) ==
    IF response.k = "unreachable"
    THEN Raise("httpx.ConnectError", <<"All connection attempts failed">>)
    ELSE parse_response(response)

\* The tail of search_by_property and of search_by_text.
search_result(response) ==
    LET data == send(response) IN
    IF ~data.ok THEN data
    ELSE IF data.value.k = "dict"
    THEN Ok(GetDefault(data.value, "objects", JList(<<>>)).v)
    ELSE Ok(<<>>)

\* AnytypeClient.upload_file, after the request.
upload_result(response) ==
    LET data == send(response) IN
    IF ~data.ok THEN data
    ELSE LET file_id == IF data.value.k = "dict" THEN Get(data.value, "id")
                        ELSE JNull
         IN  IF Falsy(file_id)
             THEN Raise("AnytypeAPIError",
                        <<"File upload succeeded but response missing 'id'.">>)
             ELSE Ok(file_id.v)

\* AnytypePublisher._build_fields
build_fields(record, bibtex_entry) ==
    LET base ==
            (Settings.anytype_field_doi :> record.doi)
            @@ (Settings.anytype_field_year :> record.year)
            @@ (Settings.anytype_field_authors :>
                    Replace(formatted_authors(record),
                            <<" ", "a", "n", "d", " ">>,
                            Settings.anytype_author_separator))
            @@ (Settings.anytype_field_bibtex :> bibtex_entry)
        journal == IF Truthy(record.journal)
                   THEN (Settings.anytype_field_journal :> record.journal.val)
                   ELSE <<>>
        short == IF Truthy(record.short_journal)
                    /\ Settings.anytype_field_short_journal # ""
                 THEN (Settings.anytype_field_short_journal :>
                           record.short_journal.val)
                 ELSE <<>>
    IN  base @@ journal @@ short

\* The request AnytypePublisher.create_reference sends via create_object.
create_request(record, bibtex_entry) ==
    [op |-> "create_object",
     object_type |-> IF record.entry_type = "book"
                     THEN Settings.anytype_object_type_book
                     ELSE Settings.anytype_object_type_article,
     name |-> record.title,
     fields |-> build_fields(record, bibtex_entry)]

\* The request AnytypePublisher.update_reference sends via update_object.
update_request(object_id, record, bibtex_entry) ==
    [op |-> "update_object",
     object_id |-> object_id,
     fields |-> build_fields(record, bibtex_entry)]

\* DOIIngestionService._extract_object_id (metadata.py)
extract_object_id(payload) ==
    IF payload.k # "dict"
    THEN Raise("AttributeError", <<"object has no attribute 'get'">>)
    ELSE IF Falsy(Get(payload, "id"))
    THEN Raise("AnytypeAPIError", <<"Anytype create response missing 'id' field">>)
    ELSE Ok(Get(payload, "id").v)

(***************************************************************************)
(* services/dedup.py                                                       *)
(***************************************************************************)
\* str.split(sep) for a non-empty separator: "".split(sep) is [""].
RECURSIVE SplitAcc(_, _, _)
SplitAcc(s, sep, current) ==
    IF s = <<>> THEN <<current>>
    ELSE IF IsPrefix(sep, s)
    THEN <<current>> \o SplitAcc(SubSeq(s, Len(sep) + 1, Len(s)), sep, <<>>)
    ELSE SplitAcc(Tail(s), sep, Append(current, Head(s)))

Split(s, sep) == SplitAcc(s, sep, <<>>)

\* str(obj.get("id")): str(None) is the text "None".
object_id_of(obj) ==
    IF Get(obj, "id").k = "null" THEN "None" ELSE Get(obj, "id").v

\* The DuplicateCandidate that _extend_candidates builds from one raw object.
candidate_of(obj) ==
    LET fields == GetDefault(obj, "fields", EmptyDict)
        title == IF ~Falsy(Get(obj, "name")) THEN Get(obj, "name")
                 ELSE Get(obj, "title")
        doi == IF fields.k = "dict" THEN Get(fields, Settings.anytype_field_doi)
               ELSE JNull
        authors_field == IF fields.k = "dict"
                         THEN Get(fields, Settings.anytype_field_authors)
                         ELSE JList(<<>>)
        parts == IF authors_field.k = "str"
                 THEN Split(authors_field.v, Settings.anytype_author_separator)
                 ELSE <<>>
        authors == IF authors_field.k = "str"
                   THEN [i \in DOMAIN parts |-> Strip(parts[i])]
                   ELSE IF authors_field.k = "list"
                   THEN [i \in DOMAIN authors_field.v |-> authors_field.v[i].v]
                   ELSE <<>>
    IN  [object_id |-> object_id_of(obj),
         title |-> IF Falsy(title) THEN None ELSE Some(title.v),
         doi |-> IF Falsy(doi) THEN None ELSE Some(doi.v),
         authors |-> authors]

\* Mutant: every raw object becomes a candidate, seen before or not.
RECURSIVE extend_candidates_unchecked(_, _, _)
extend_candidates_unchecked(target, seen, raw_objects) ==
    IF raw_objects = <<>> THEN [target |-> target, seen |-> seen]
    ELSE extend_candidates_unchecked(
             Append(target, candidate_of(Head(raw_objects))),
             seen \cup {object_id_of(Head(raw_objects))},
             Tail(raw_objects))

\* AnytypeDuplicateDetector._extend_candidates: the pair of target and seen
\* after the loop over raw_objects.
RECURSIVE extend_candidates(_, _, _)
extend_candidates(target, seen, raw_objects) ==
    IF raw_objects = <<>> THEN [target |-> target, seen |-> seen]
    ELSE LET obj == Head(raw_objects)
             object_id == object_id_of(obj)
         IN  IF object_id \in seen
             THEN extend_candidates(target, seen, Tail(raw_objects))
             ELSE extend_candidates(Append(target, candidate_of(obj)),
                                    seen \cup {object_id},
                                    Tail(raw_objects))

\* {author.family_ascii().lower() for author in record.authors}
author_last_names(record) ==
    {Lower(family_ascii(record.authors[i])) : i \in DOMAIN record.authors}

\* The orders in which a set can be iterated.
Orderings(S) ==
    {f \in [1..Cardinality(S) -> S] : \A i, j \in DOMAIN f : i # j => f[i] # f[j]}

(***************************************************************************)
(* The inputs of one run and the answers of the environment.               *)
(***************************************************************************)
Doi1 == <<"1","0",".","1","/","x">>
Doi2 == <<"1","0",".","1","/","X">>

\* The doi argument of run_pipeline.
DoiInputs == { <<>>, <<" ", " ">>, <<" ">> \o Doi1 \o <<"\n">> }

ExistingPdf == <<"a",".","p","d","f">>
MissingPdf == <<"b",".","p","d","f">>

\* Path.exists() on the local file system.
Exists(path) == path = ExistingPdf

\* The pdf_path argument of run_pipeline.
PdfInputs == { None, Some(<<>>), Some(ExistingPdf), Some(MissingPdf) }

Garcia == <<"G","a","r","c","i-acute","a">>
Doe == <<"D","o","e">>
Jane == <<"J","a","n","e">>
Title1 == <<"O","n"," ","x","2">>
Journal1 == <<"J",".","P">>

AuthorEntry(family, given) ==
    JDict(("family" :> JStr(family)) @@ ("given" :> JStr(given)))

DateOf(parts) == JDict("date-parts" :> parts)

\* The author lists of the CrossRef messages of the model.
AuthorLists ==
    { JList(<<>>),
      JList(<<JDict("family" :> JStr(Garcia)),
              JDict("given" :> JStr(Jane)),
              JDict(("family" :> JStr(Doe))
                    @@ ("ORCID" :> JStr(OrcidPrefix \o <<"0", "-", "1">>)))>>) }

\* Messages from which a record is built: every combination of an empty
\* or present doi, an empty or present title and the author lists.
GoodMessages ==
    { ("title" :> t) @@ ("issued" :> DateOf(JList(<<JList(<<JInt(2023)>>)>>)))
      @@ ("author" :> a) @@ d @@ ("type" :> JTok("journal-article"))
      @@ ("container-title" :> JList(<<JStr(Journal1)>>)) :
        t \in {JList(<<JStr(Title1)>>), JList(<<JStr(<<>>)>>)},
        a \in AuthorLists,
        d \in {<<>>, ("DOI" :> JStr(<<>>))} }

BaseMessage ==
    ("title" :> JStr(Title1)) @@ ("author" :> JList(<<AuthorEntry(Doe, Jane)>>))
    @@ ("DOI" :> JStr(Doi2))

\* The values a date field takes in the messages of the model.
DateValues ==
    { JNull,
      DateOf(JList(<<>>)),
      DateOf(JList(<<JList(<<>>)>>)),
      DateOf(JList(<<JList(<<JNull>>)>>)),
      EmptyDict }

\* Variations of the title and of the date fields.
OtherMessages ==
    { ("author" :> JList(<<>>)) @@ ("issued" :> DateOf(JList(<<JList(<<JInt(2023)>>)>>))),
      ("title" :> JList(<<>>)) @@ ("issued" :> DateOf(JList(<<JList(<<JInt(2023)>>)>>))),
      ("title" :> JStr(<<>>)) @@ ("issued" :> DateOf(JList(<<JList(<<JInt(2023)>>)>>))),
      BaseMessage,
      BaseMessage @@ ("type" :> JTok("book")) @@ ("publisher" :> JStr(Journal1))
        @@ ("published-online" :> DateOf(JList(<<JList(<<JInt(2022), JInt(5)>>)>>)))
        @@ ("issued" :> DateOf(JList(<<JList(<<JInt(2023)>>)>>))),
      BaseMessage
        @@ ("published-print" :> DateOf(JList(<<JList(<<JStr(<<"2","0","2","1">>)>>)>>)))
        @@ ("published-online" :> DateOf(JList(<<JList(<<JInt(2022)>>)>>))) }
    \cup { BaseMessage @@ ("issued" :> v) : v \in DateValues }
    \cup { BaseMessage @@ ("published-print" :> v)
             @@ ("issued" :> DateOf(JList(<<JList(<<JInt(2023)>>)>>))) :
           v \in DateValues \ {JNull} }

Messages == GoodMessages \cup OtherMessages

\* What the metadata source answers to the lookup.
CrossrefResponses ==
    { Unreachable, BadStatus, InvalidJson,
      Body(JList(<<>>)), Body(EmptyDict), Body(JDict("message" :> EmptyDict)) }
    \cup { Body(JDict("message" :> JDict(m))) : m \in Messages }

\* The raw objects of the remote store that searches return: one written
\* by this program, one with a structured author list and no name, and one
\* without an id.
RawObjects ==
    { JDict(("id" :> JTok("o1")) @@ ("name" :> JStr(Title1))
            @@ ("fields" :> JDict(("doi" :> JStr(Doi1))
                                  @@ ("authors" :> JStr(Doe \o <<";", " ">> \o Garcia))))),
      JDict(("id" :> JTok("o2")) @@ ("title" :> JStr(Title1))
            @@ ("fields" :> JDict("authors" :> JList(<<JStr(Doe)>>)))),
      JDict("name" :> JStr(Title1)) }

Min(a, b) == IF a < b THEN a ELSE b

SeqsUpTo(S, n) == UNION {[1..m -> S] : m \in 0..n}

\* What the remote store answers to a search with the given limit.
SearchResponses(limit) ==
    { Unreachable, BadStatus, InvalidJson, EmptyBody,
      Body(JList(<<>>)), Body(EmptyDict) }
    \cup { Body(JDict("objects" :> JList(objs))) :
             objs \in SeqsUpTo(RawObjects, Min(MaxResults, limit)) }

\* The id the remote store gives to a created object, and to an uploaded file.
NewObjectId == "new1"
NewFileId == "file1"

\* What the remote store answers to create, update and attach.
ObjectResponses ==
    { Unreachable, BadStatus, InvalidJson, EmptyBody,
      Body(JList(<<>>)), Body(JDict("id" :> JTok(NewObjectId))) }

\* What the remote store answers to a file upload.
UploadResponses ==
    { Unreachable, BadStatus, InvalidJson, EmptyBody,
      Body(JList(<<>>)), Body(JDict("id" :> JTok(NewFileId))) }

\* What the operator can type at a prompt.
OperatorInputs ==
    { <<"a">>, <<"c">>, <<"C", "r", "e", "a", "t", "e", " ">>, <<"u">>,
      <<" ", "U", "S", "E">>, <<"x">>, <<>>,
      <<"1">>, <<" ", "2", " ">>, <<"3">>, <<"0">>, <<"-", "1">> }

(***************************************************************************)
(* The state of one run of run_pipeline.                                   *)
(***************************************************************************)
VARIABLES
    doi,          \* argument doi
    pdf_path,     \* argument pdf_path
    dry_run,      \* argument dry_run
    pc,           \* where the run is
    record,       \* the BibliographicRecord, once fetched
    bibtex_entry, \* the serialized record
    candidates,   \* find_duplicates: the list candidates
    seen,         \* find_duplicates: the set seen
    action,       \* the decision returned by _prompt_duplicate_action
    selected,     \* the candidate returned with it
    object_id,    \* the object the PDF is attached to
    file_id,      \* the id of the uploaded file
    trace,        \* the external operations issued so far, in order
    calls,        \* the calls made on the publisher so far, in order
    outcome,      \* how run_pipeline ended
    returned      \* what a function called on its own returned (FunctionSpec)

vars == <<doi, pdf_path, dry_run, pc, record, bibtex_entry, candidates, seen,
          action, selected, object_id, file_id, trace, calls, outcome, returned>>

inputs == <<doi, pdf_path, dry_run>>

\* pdf = Path(pdf_path) if pdf_path else None
pdf == IF Truthy(pdf_path) THEN pdf_path ELSE None

Running == [k |-> "running"]
Returned == [k |-> "returned"]
\* An exception leaving run_pipeline; cause is the exception it was made from.
Raised(type, msg, cause) == [k |-> "raised", type |-> type, msg |-> msg, cause |-> cause]

Init ==
    /\ doi \in DoiInputs
    /\ pdf_path \in PdfInputs
    /\ dry_run \in BOOLEAN
    /\ pc = "start"
    /\ record = None
    /\ bibtex_entry = <<>>
    /\ candidates = <<>>
    /\ seen = {}
    /\ action = "none"
    /\ selected = None
    /\ object_id = None
    /\ file_id = None
    /\ trace = <<>>
    /\ calls = <<>>
    /\ outcome = Running
    /\ returned = None

\* run_pipeline, lines 29-31: the PDF must exist.
CheckPdf ==
    /\ pc = "start"
    /\ IF (~pdf.none) /\ ~Exists(pdf.val)
       THEN /\ outcome' = Raised("PipelineError",
                                 <<"PDF not found at path: ">> \o pdf.val,
                                 "PipelineError")
            /\ pc' = "done"
       ELSE /\ pc' = "fetch"
            /\ UNCHANGED outcome
    /\ UNCHANGED <<inputs, returned, record, bibtex_entry, candidates, seen, action,
                   selected, object_id, file_id, trace, calls>>

\* The except clause of run_pipeline around fetch_metadata (lines 48-51).
fetch_failure(exc) ==
    IF exc.type = "MetadataRetrievalError"
    THEN Raised("PipelineError", exc.msg, exc.type)
    ELSE Raised(exc.type, exc.msg, exc.type)

\* run_pipeline, lines 48-51: fetch_metadata and its except clause.
FetchMetadata ==
    /\ pc = "fetch"
    /\ \E response \in CrossrefResponses :
        LET r == fetch_metadata(doi, response) IN
        /\ trace' = IF r.issued
                    THEN Append(trace, [op |-> "lookup", doi |-> Strip(doi)])
                    ELSE trace
        /\ IF r.result.ok
           THEN /\ record' = Some(r.result.value)
                /\ pc' = "bibtex"
                /\ UNCHANGED outcome
           ELSE /\ outcome' = fetch_failure(r.result)
                /\ pc' = "done"
                /\ UNCHANGED record
    /\ UNCHANGED <<inputs, returned, bibtex_entry, candidates, seen, action, selected,
                   object_id, file_id, calls>>

\* Mutant: the dry-run test is missing.
GenerateBibtex_publishes ==
    /\ pc = "bibtex"
    /\ bibtex_entry' = generate_bibtex(record.val)
    /\ pc' = "tier1"
    /\ UNCHANGED <<inputs, returned, record, candidates, seen, action, selected,
                   object_id, file_id, trace, calls, outcome>>

\* run_pipeline, lines 53-59: generate_bibtex, and the end of a dry run.
GenerateBibtex ==
    /\ pc = "bibtex"
    /\ bibtex_entry' = generate_bibtex(record.val)
    /\ IF dry_run
       THEN /\ pc' = "done"
            /\ outcome' = Returned
       ELSE /\ pc' = "tier1"
            /\ UNCHANGED outcome
    /\ UNCHANGED <<inputs, returned, record, candidates, seen, action, selected,
                   object_id, file_id, trace, calls>>

(***************************************************************************)
(* publish_to_anytype: find_duplicates, one search per step.               *)
(***************************************************************************)
DoiSearchLimit == 5
AuthorSearchLimit == 5
TitleSearchLimit == 3

\* The except clause of run_pipeline around publish_to_anytype (lines 61-64).
publish_failure(exc) ==
    IF exc.type = "AnytypeAPIError"
    THEN Raised("PipelineError", <<"Anytype API error: ">> \o exc.msg, exc.type)
    ELSE Raised(exc.type, exc.msg, exc.type)

\* Mutant: a failure inside publish_to_anytype is retried from the start
\* of find_duplicates.
Fail_retries(exc) ==
    /\ outcome' = outcome
    /\ pc' = "tier1"

\* The run ends with the exception exc raised inside publish_to_anytype.
Fail(exc) ==
    /\ outcome' = publish_failure(exc)
    /\ pc' = "done"

\* The run ends with publish_to_anytype returning.
Return ==
    /\ outcome' = Returned
    /\ pc' = "done"

\* The search returned an object whose id an earlier object has: one of an
\* earlier search, or an earlier one of this search.
repeats(ids, found) ==
    /\ found.ok
    /\ \E i \in 1..Len(found.value) :
           \/ object_id_of(found.value[i]) \in ids
           \/ \E j \in 1..(i - 1) :
                  object_id_of(found.value[j]) = object_id_of(found.value[i])

\* One search of find_duplicates answered by response, and the
\* _extend_candidates that follows; next is where find_duplicates goes on
\* when the search returns.  The trace keeps, with the request, whether the
\* search returned an id again.
SearchOn(request, next, response) ==
    LET found == search_result(response) IN
    /\ trace' = Append(trace, request @@ ("repeat" :> repeats(seen, found)))
    /\ IF found.ok
       THEN LET ext == extend_candidates(candidates, seen, found.value) IN
            /\ candidates' = ext.target
            /\ seen' = ext.seen
            /\ pc' = next
            /\ UNCHANGED outcome
       ELSE /\ Fail(found)
            /\ UNCHANGED <<candidates, seen>>

\* A tier of find_duplicates that is not run.
SkipSearch(next) ==
    /\ pc' = next
    /\ UNCHANGED <<candidates, seen, trace, outcome>>

DoiRequest ==
    [op |-> "search_by_property",
     property_key |-> Settings.anytype_field_doi,
     value |-> record.val.doi,
     limit |-> DoiSearchLimit]

AuthorsRequest(order) ==
    [op |-> "search_by_text",
     query |-> Join(<<" ">>, order),
     limit |-> AuthorSearchLimit]

TitleRequest ==
    [op |-> "search_by_text",
     query |-> record.val.title,
     limit |-> TitleSearchLimit]

\* find_duplicates, lines 60-66: the search by the DOI property.
SearchDoi ==
    /\ pc = "tier1"
    /\ IF record.val.doi # <<>>
       THEN \E response \in SearchResponses(DoiSearchLimit) :
                SearchOn(DoiRequest, "tier2", response)
       ELSE SkipSearch("tier2")
    /\ UNCHANGED <<inputs, returned, record, bibtex_entry, action, selected, object_id,
                   file_id, calls>>

\* find_duplicates, lines 68-74: the text search on the author names, the
\* set being joined in whatever order it is iterated.
SearchAuthors ==
    /\ pc = "tier2"
    /\ IF author_last_names(record.val) # {}
       THEN \E order \in Orderings(author_last_names(record.val)) :
            \E response \in SearchResponses(AuthorSearchLimit) :
                SearchOn(AuthorsRequest(order), "tier3", response)
       ELSE SkipSearch("tier3")
    /\ UNCHANGED <<inputs, returned, record, bibtex_entry, action, selected, object_id,
                   file_id, calls>>

\* Mutant: the title is searched even when there are candidates.
SearchTitle_always ==
    /\ pc = "tier3"
    /\ IF record.val.title # <<>>
       THEN \E response \in SearchResponses(TitleSearchLimit) :
                SearchOn(TitleRequest, "found", response)
       ELSE SkipSearch("found")
    /\ UNCHANGED <<inputs, returned, record, bibtex_entry, action, selected,
                   object_id, file_id, calls>>

\* find_duplicates, lines 76-83: the text search on the title.
SearchTitle ==
    /\ pc = "tier3"
    /\ IF candidates = <<>> /\ record.val.title # <<>>
       THEN \E response \in SearchResponses(TitleSearchLimit) :
                SearchOn(TitleRequest, "found", response)
       ELSE SkipSearch("found")
    /\ UNCHANGED <<inputs, returned, record, bibtex_entry, action, selected, object_id,
                   file_id, calls>>

\* Mutant: the operator is asked even when there is no candidate.
Dispatch_always_asks ==
    /\ pc = "found"
    /\ pc' = "menu"
    /\ UNCHANGED <<inputs, returned, record, bibtex_entry, candidates, seen, action,
                   selected, object_id, file_id, trace, calls, outcome>>

\* publish_to_anytype, lines 129-131: with candidates the operator is
\* asked, without any the reference is created.
Dispatch ==
    /\ pc = "found"
    /\ pc' = IF candidates # <<>> THEN "menu" ELSE "create"
    /\ UNCHANGED <<inputs, returned, record, bibtex_entry, candidates, seen, action,
                   selected, object_id, file_id, trace, calls, outcome>>

(***************************************************************************)
(* publish_to_anytype: the decision (_prompt_duplicate_action).            *)
(***************************************************************************)
IsAsk(e) == e.op = "ask"
Prompts == SelectSeq(trace, IsAsk)

\* Mutant: an answer that is not recognized is taken as "create".
menu_choice_default_create(text) ==
    LET choice == Lower(Strip(text)) IN
    IF choice \in { <<"a">>, <<"a", "b", "o", "r", "t">> } THEN "abort"
    ELSE IF choice \in { <<"u">>, <<"u", "s", "e">> } THEN "use"
    ELSE "create"

\* What _prompt_duplicate_action does with the answer to "Select option: ".
menu_choice(text) ==
    LET choice == Lower(Strip(text)) IN
    IF choice \in { <<"a">>, <<"a", "b", "o", "r", "t">> } THEN "abort"
    ELSE IF choice \in { <<"c">>, <<"c", "r", "e", "a", "t", "e">> } THEN "create"
    ELSE IF choice \in { <<"u">>, <<"u", "s", "e">> } THEN "use"
    ELSE "unrecognized"

\* Mutant: the index counts from the end of the list (candidates[-index]).
index_choice_from_end(text, n) ==
    LET index == ParseInt(Strip(text)) IN
    IF ~index.ok THEN 0
    ELSE IF 1 <= index.value /\ index.value <= n THEN n + 1 - index.value
    ELSE 0

\* Mutant: the last candidate cannot be chosen (index < len(candidates)).
index_choice_below_last(text, n) ==
    LET index == ParseInt(Strip(text)) IN
    IF ~index.ok THEN 0
    ELSE IF 1 <= index.value /\ index.value < n THEN index.value
    ELSE 0

\* What it does with the answer to "Enter the number of the object to
\* reuse: ": the one-based index of the candidate, or 0 to ask again.
index_choice(text, n) ==
    LET index == ParseInt(Strip(text)) IN
    IF ~index.ok THEN 0
    ELSE IF 1 <= index.value /\ index.value <= n THEN index.value
    ELSE 0

\* Mutant: the return after an abort is missing, and the run goes on to create.
PromptMenuOn_abort_goes_on(text) ==
    /\ pc = "menu"
    /\ Len(Prompts) < MaxPrompts
    /\ trace' = Append(trace, [op |-> "ask", prompt |-> "Select option: "])
    /\ CASE menu_choice(text) = "abort" ->
                /\ action' = "abort"
                /\ pc' = "create"
                /\ UNCHANGED outcome
         [] menu_choice(text) = "create" ->
                /\ action' = "create"
                /\ pc' = "create"
                /\ UNCHANGED outcome
         [] menu_choice(text) = "use" ->
                /\ pc' = "index"
                /\ UNCHANGED <<action, outcome>>
         [] OTHER ->
                /\ pc' = "menu"
                /\ UNCHANGED <<action, outcome>>
    /\ UNCHANGED <<inputs, returned, record, bibtex_entry, candidates, seen, selected,
                   object_id, file_id, calls>>

\* _prompt_duplicate_action, lines 171-175 and 188-189: the menu prompt.
PromptMenuOn(text) ==
    /\ pc = "menu"
    /\ Len(Prompts) < MaxPrompts
    /\ trace' = Append(trace, [op |-> "ask", prompt |-> "Select option: "])
    /\ CASE menu_choice(text) = "abort" ->
                /\ action' = "abort"
                /\ Return
         [] menu_choice(text) = "create" ->
                /\ action' = "create"
                /\ pc' = "create"
                /\ UNCHANGED outcome
         [] menu_choice(text) = "use" ->
                /\ pc' = "index"
                /\ UNCHANGED <<action, outcome>>
         [] OTHER ->
                /\ pc' = "menu"
                /\ UNCHANGED <<action, outcome>>
    /\ UNCHANGED <<inputs, returned, record, bibtex_entry, candidates, seen, selected,
                   object_id, file_id, calls>>

\* _prompt_duplicate_action, lines 176-187, and publish_to_anytype, line
\* 135: the index prompt.
PromptIndexOn(text) ==
    /\ pc = "index"
    /\ Len(Prompts) < MaxPrompts
    /\ trace' = Append(trace, [op |-> "ask",
                               prompt |-> "Enter the number of the object to reuse: "])
    /\ LET index == index_choice(text, Len(candidates)) IN
       IF index # 0
       THEN /\ action' = "use_existing"
            /\ selected' = Some(candidates[index])
            /\ pc' = "update"
       ELSE /\ pc' = "menu"
            /\ UNCHANGED <<action, selected>>
    /\ UNCHANGED <<inputs, returned, record, bibtex_entry, candidates, seen, object_id,
                   file_id, calls, outcome>>

\* The operator answers the menu prompt.
PromptMenu == \E text \in OperatorInputs : PromptMenuOn(text)

\* The operator answers the index prompt.
PromptIndex == \E text \in OperatorInputs : PromptIndexOn(text)

(***************************************************************************)
(* publish_to_anytype: create or update, then the attachment.              *)
(***************************************************************************)
\* Mutant: the PDF goes to the first candidate whenever there is one.
ThenAttach_first_candidate(oid) ==
    /\ object_id' = Some(IF candidates # <<>> THEN candidates[1].object_id
                         ELSE oid)
    /\ IF ~pdf.none
       THEN /\ pc' = "upload"
            /\ UNCHANGED outcome
       ELSE Return

\* After a successful create or update on the object oid: lines 142-144
\* and 158-160.
ThenAttach(oid) ==
    /\ object_id' = Some(oid)
    /\ IF ~pdf.none
       THEN /\ pc' = "upload"
            /\ UNCHANGED outcome
       ELSE Return

\* publish_to_anytype, lines 139-141: create_reference and _extract_object_id.
Create ==
    /\ pc = "create"
    /\ calls' = Append(calls, [op |-> "create_reference",
                               record |-> record.val,
                               bibtex_entry |-> bibtex_entry])
    /\ trace' = Append(trace, create_request(record.val, bibtex_entry))
    /\ \E response \in ObjectResponses :
        LET created == send(response) IN
        IF ~created.ok
        THEN Fail(created) /\ UNCHANGED object_id
        ELSE LET oid == extract_object_id(created.value) IN
             IF ~oid.ok
             THEN Fail(oid) /\ UNCHANGED object_id
             ELSE ThenAttach(oid.value)
    /\ UNCHANGED <<inputs, returned, record, bibtex_entry, candidates, seen, action,
                   selected, file_id>>

\* _update_existing, lines 155-157: update_reference on the chosen object.
Update ==
    /\ pc = "update"
    /\ calls' = Append(calls, [op |-> "update_reference",
                               object_id |-> selected.val.object_id,
                               record |-> record.val,
                               bibtex_entry |-> bibtex_entry])
    /\ trace' = Append(trace, update_request(selected.val.object_id,
                                             record.val, bibtex_entry))
    /\ \E response \in ObjectResponses :
        LET updated == send(response) IN
        IF ~updated.ok
        THEN Fail(updated) /\ UNCHANGED object_id
        ELSE ThenAttach(selected.val.object_id)
    /\ UNCHANGED <<inputs, returned, record, bibtex_entry, candidates, seen, action,
                   selected, file_id>>

\* attach_pdf, line 181: upload_file.
Upload ==
    /\ pc = "upload"
    /\ calls' = Append(calls, [op |-> "attach_pdf",
                               object_id |-> object_id.val,
                               pdf_path |-> pdf.val])
    /\ trace' = Append(trace, [op |-> "upload_file", pdf_path |-> pdf.val])
    /\ \E response \in UploadResponses :
        LET uploaded == upload_result(response) IN
        IF ~uploaded.ok
        THEN Fail(uploaded) /\ UNCHANGED file_id
        ELSE /\ file_id' = Some(uploaded.value)
             /\ pc' = "attach"
             /\ UNCHANGED outcome
    /\ UNCHANGED <<inputs, returned, record, bibtex_entry, candidates, seen, action,
                   selected, object_id>>

\* Mutant: a failed attach is compensated by deleting the object.
Attach_rolls_back ==
    /\ pc = "attach"
    /\ \E response \in ObjectResponses :
        LET attached == send(response)
            request == [op |-> "attach_file_to_object",
                        object_id |-> object_id.val,
                        file_id |-> file_id.val,
                        relation_key |-> Settings.anytype_file_relation_key]
        IN  IF ~attached.ok
            THEN /\ trace' = trace \o <<request, [op |-> "delete_object",
                                                  object_id |-> object_id.val]>>
                 /\ Fail(attached)
            ELSE /\ trace' = Append(trace, request)
                 /\ Return
    /\ UNCHANGED <<inputs, returned, record, bibtex_entry, candidates, seen, action,
                   selected, object_id, file_id, calls>>

\* attach_pdf, line 182: attach_file_to_object.
Attach ==
    /\ pc = "attach"
    /\ trace' = Append(trace, [op |-> "attach_file_to_object",
                               object_id |-> object_id.val,
                               file_id |-> file_id.val,
                               relation_key |-> Settings.anytype_file_relation_key])
    /\ \E response \in ObjectResponses :
        LET attached == send(response) IN
        IF ~attached.ok THEN Fail(attached) ELSE Return
    /\ UNCHANGED <<inputs, returned, record, bibtex_entry, candidates, seen, action,
                   selected, object_id, file_id, calls>>

Next ==
    \/ CheckPdf
    \/ FetchMetadata
    \/ GenerateBibtex
    \/ SearchDoi
    \/ SearchAuthors
    \/ SearchTitle
    \/ Dispatch
    \/ PromptMenu
    \/ PromptIndex
    \/ Create
    \/ Update
    \/ Upload
    \/ Attach

Spec == Init /\ [][Next]_vars

(***************************************************************************)
(* publish_to_anytype with a decision loop of any length.  The loop of     *)
(* _prompt_duplicate_action (while True, lines 170-189) has no iteration   *)
(* bound; trace keeps the first MaxPrompts prompts and the later ones go   *)
(* unrecorded.  The operator eventually gives a valid answer: abort or     *)
(* create at the menu, or the number of a candidate at the index prompt.   *)
(***************************************************************************)
\* trace after the prompt is shown.
asked(prompt) ==
    IF Len(Prompts) < MaxPrompts
    THEN Append(trace, [op |-> "ask", prompt |-> prompt])
    ELSE trace

\* _prompt_duplicate_action, lines 171-175 and 188-189: the menu prompt.
AskMenuOn(text) ==
    /\ pc = "menu"
    /\ trace' = asked("Select option: ")
    /\ CASE menu_choice(text) = "abort" ->
                /\ action' = "abort"
                /\ Return
         [] menu_choice(text) = "create" ->
                /\ action' = "create"
                /\ pc' = "create"
                /\ UNCHANGED outcome
         [] menu_choice(text) = "use" ->
                /\ pc' = "index"
                /\ UNCHANGED <<action, outcome>>
         [] OTHER ->
                /\ pc' = "menu"
                /\ UNCHANGED <<action, outcome>>
    /\ UNCHANGED <<inputs, returned, record, bibtex_entry, candidates, seen, selected,
                   object_id, file_id, calls>>

\* _prompt_duplicate_action, lines 176-187, and publish_to_anytype, line
\* 135: the index prompt.
AskIndexOn(text) ==
    /\ pc = "index"
    /\ trace' = asked("Enter the number of the object to reuse: ")
    /\ LET index == index_choice(text, Len(candidates)) IN
       IF index # 0
       THEN /\ action' = "use_existing"
            /\ selected' = Some(candidates[index])
            /\ pc' = "update"
       ELSE /\ pc' = "menu"
            /\ UNCHANGED <<action, selected>>
    /\ UNCHANGED <<inputs, returned, record, bibtex_entry, candidates, seen, object_id,
                   file_id, calls, outcome>>

AskMenu == \E text \in OperatorInputs : AskMenuOn(text)

AskIndex == \E text \in OperatorInputs : AskIndexOn(text)

\* The answers that end the loop: abort or create, in any case and with
\* blanks around, and the decimal number of a listed candidate.
EndsAtMenu(text) ==
    Lower(Strip(text)) \in { <<"a">>, <<"a", "b", "o", "r", "t">>,
                             <<"c">>, <<"c", "r", "e", "a", "t", "e">> }

EndsAtIndex(text) == \E n \in 1..Len(candidates) : Strip(text) = IntStr(n)

\* The operator gives an answer that ends the loop.
Decides ==
    \/ \E text \in OperatorInputs : EndsAtMenu(text) /\ AskMenuOn(text)
    \/ \E text \in OperatorInputs : EndsAtIndex(text) /\ AskIndexOn(text)

\* The record of the run.
LiveRecord ==
    [doi |-> Doi1, title |-> Title1, entry_type |-> "article", year |-> 2024,
     authors |-> <<[family |-> Doe, given |-> Some(Jane), orcid |-> None]>>,
     journal |-> None, short_journal |-> None, publisher |-> None]

\* What find_duplicates can return: the candidates of the raw objects found.
Found ==
    {extend_candidates(<<>>, {}, objs) : objs \in SeqsUpTo(RawObjects, MaxResults)}

\* publish_to_anytype at line 129, find_duplicates having returned; trace and
\* calls hold what is requested from here on.
LiveInit ==
    /\ doi = Doi1
    /\ pdf_path \in {None, Some(ExistingPdf)}
    /\ dry_run = FALSE
    /\ pc = "found"
    /\ record = Some(LiveRecord)
    /\ bibtex_entry = generate_bibtex(LiveRecord)
    /\ \E found \in Found :
           /\ candidates = found.target
           /\ seen = found.seen
    /\ action = "none"
    /\ selected = None
    /\ object_id = None
    /\ file_id = None
    /\ trace = <<>>
    /\ calls = <<>>
    /\ outcome = Running
    /\ returned = None

LiveNext ==
    \/ Dispatch
    \/ AskMenu
    \/ AskIndex
    \/ Create
    \/ Update
    \/ Upload
    \/ Attach

LiveSpec ==
    /\ LiveInit
    /\ [][LiveNext]_vars
    /\ WF_vars(Decides)

(***************************************************************************)
(* The functions of a record called on their own, on records that need not *)
(* come from a lookup: any BibliographicRecord the model class admits.     *)
(***************************************************************************)
\* Longest author list of these records.
MaxAuthors == 2

ONeil == <<"O", "'", "N", "e", "i", "l">>
Li == <<"li-cjk">>
Publisher1 == <<"M", "I", "T">>

\* Author objects: with and without a given name, with an accent, with
\* punctuation, with an empty given name, without any ASCII character.
Authors ==
    { [family |-> Doe, given |-> Some(Jane), orcid |-> None],
      [family |-> Garcia, given |-> None, orcid |-> None],
      [family |-> ONeil, given |-> Some(<<>>), orcid |-> None],
      [family |-> Li, given |-> Some(Jane), orcid |-> None] }

\* Titles: starting with a word, starting with punctuation, without any
\* alphanumeric character, empty.
Titles == { Title1, <<" ", "-", "Q", "2", ".", "f">>, <<"?", "!">>, <<>> }

Years == { 2024, -3 }

Records ==
    [doi : {Doi1, <<>>},
     title : Titles,
     entry_type : {"article", "book"},
     year : Years,
     authors : SeqsUpTo(Authors, MaxAuthors),
     journal : {None, Some(Journal1)},
     short_journal : {None},
     publisher : {None, Some(Publisher1)}]

FunctionInit ==
    /\ doi = <<>>
    /\ pdf_path = None
    /\ dry_run = TRUE
    /\ pc = "record"
    /\ record \in {Some(r) : r \in Records}
    /\ bibtex_entry = <<>>
    /\ candidates = <<>>
    /\ seen = {}
    /\ action = "none"
    /\ selected = None
    /\ object_id = None
    /\ file_id = None
    /\ trace = <<>>
    /\ calls = <<>>
    /\ outcome = Running
    /\ returned = None

\* record.citation_key()
CallCitationKey ==
    /\ pc = "record"
    /\ returned' = Some(citation_key(record.val))
    /\ pc' = "citation_key"
    /\ UNCHANGED <<inputs, record, bibtex_entry, candidates, seen, action,
                   selected, object_id, file_id, trace, calls, outcome>>

\* DOIIngestionService.generate_bibtex(record)
CallGenerateBibtex ==
    /\ pc = "record"
    /\ returned' = Some(generate_bibtex(record.val))
    /\ pc' = "generate_bibtex"
    /\ UNCHANGED <<inputs, record, bibtex_entry, candidates, seen, action,
                   selected, object_id, file_id, trace, calls, outcome>>

\* What a candidate date field of a message can be: absent, without
\* date-parts, with a null year, or with a year.
Absent == [k |-> "absent"]

YearValues ==
    { Absent,
      DateOf(JList(<<>>)),
      DateOf(JList(<<JList(<<JNull>>)>>)),
      DateOf(JList(<<JList(<<JInt(2021)>>)>>)),
      DateOf(JList(<<JList(<<JInt(2022), JInt(5)>>)>>)) }

\* The messages with these values under the three candidate keys.
YearMessage(f) == JDict([key \in {k \in Range(YearKeys) : f[k] # Absent} |-> f[key]])

YearMessages == {YearMessage(f) : f \in [Range(YearKeys) -> YearValues]}

\* DOIIngestionService._extract_year(message)
CallExtractYearOn(message) ==
    /\ pc = "record"
    /\ returned' = Some(extract_year(message))
    /\ pc' = "extract_year"
    /\ UNCHANGED <<inputs, record, bibtex_entry, candidates, seen, action,
                   selected, object_id, file_id, trace, calls, outcome>>

CallExtractYear == \E message \in YearMessages : CallExtractYearOn(message)

\* The raw object a search returns for an object written with these fields:
\* the store keeps the text fields as they were sent.
stored_object(oid, fields) ==
    JDict(("id" :> JStr(oid))
          @@ ("fields" :>
                  JDict((Settings.anytype_field_doi :>
                             JStr(fields[Settings.anytype_field_doi]))
                        @@ (Settings.anytype_field_authors :>
                                JStr(fields[Settings.anytype_field_authors])))))

\* AnytypePublisher._build_fields writes the record, and the candidate
\* mapping of _extend_candidates reads the stored object back.
CallReadBack ==
    /\ pc = "record"
    /\ returned' = Some(candidate_of(
                        stored_object(NewObjectId,
                                      build_fields(record.val, bibtex_entry))))
    /\ pc' = "read_back"
    /\ UNCHANGED <<inputs, record, bibtex_entry, candidates, seen, action,
                   selected, object_id, file_id, trace, calls, outcome>>

FunctionNext ==
    \/ CallCitationKey
    \/ CallGenerateBibtex
    \/ CallExtractYear
    \/ CallReadBack

FunctionSpec == FunctionInit /\ [][FunctionNext]_vars

(***************************************************************************)
(* Observations on a run, used to state the properties below.              *)
(***************************************************************************)
IsCreateCall(c) == c.op = "create_reference"
IsUpdateCall(c) == c.op = "update_reference"
IsAttachCall(c) == c.op = "attach_pdf"

\* The calls the coordinator made on the publisher, by kind, in order.
CreateCalls == SelectSeq(calls, IsCreateCall)
UpdateCalls == SelectSeq(calls, IsUpdateCall)
AttachCalls == SelectSeq(calls, IsAttachCall)

SearchOps == {"search_by_property", "search_by_text"}
MutationOps == {"create_object", "update_object", "upload_file",
                "attach_file_to_object"}
StoreOps == SearchOps \cup MutationOps

IsStoreOp(e) == e.op \in StoreOps
IsMutationOp(e) == e.op \in MutationOps

\* The requests sent to the remote store so far.
StoreRequests == SelectSeq(trace, IsStoreOp)

Done == pc = "done"

\* The run ended with an exception raised by the external operation op.
FailedIn(ops) ==
    /\ Done
    /\ outcome.k = "raised"
    /\ trace # <<>>
    /\ trace[Len(trace)].op \in ops

PdfSupplied == ~pdf.none

\* The attach call that is expected on the object oid.
AttachTo(oid) == [op |-> "attach_pdf", object_id |-> oid, pdf_path |-> pdf.val]

\* The decimal numeral of n, as the operator types it.
Typed(text, n) == Strip(text) = IntStr(n)

(***************************************************************************)
(* C1.  Use existing: after the operator answers the index prompt with n,  *)
(* 1 <= n <= number of candidates, possibly after rejected answers, the    *)
(* n-th candidate is the one selected; the run then makes exactly one      *)
(* update call, on that candidate's object id, no create call and, when a  *)
(* PDF was supplied, exactly one attach call, on that same object id.      *)
(***************************************************************************)
\* The n-th candidate is selected and goes to the update.
C1_Selects ==
    pc = "index" =>
        \A text \in OperatorInputs : \A n \in 1..Len(candidates) :
            (Typed(text, n) /\ PromptIndexOn(text))
                => (selected' = Some(candidates[n]) /\ pc' = "update"
                    /\ action' = "use_existing")

C1_OneUpdate ==
    /\ Len(UpdateCalls) = 1
    /\ UpdateCalls[1].object_id = selected.val.object_id
    /\ UpdateCalls[1].record = record.val
    /\ UpdateCalls[1].bibtex_entry = bibtex_entry
    /\ CreateCalls = <<>>

\* The claim as written: the attach call is made whenever a PDF was supplied.
C1_EndAsClaimed ==
    (Done /\ action = "use_existing") =>
        /\ C1_OneUpdate
        /\ AttachCalls = IF PdfSupplied
                         THEN <<AttachTo(selected.val.object_id)>>
                         ELSE <<>>

C1_Original == [][C1_Selects /\ C1_EndAsClaimed']_vars

\* Amended: the attach call is made when a PDF was supplied and the update
\* call returned; when the update call fails there is no attach call.
C1_End ==
    (Done /\ action = "use_existing") =>
        /\ C1_OneUpdate
        /\ AttachCalls = IF PdfSupplied /\ ~FailedIn({"update_object"})
                         THEN <<AttachTo(selected.val.object_id)>>
                         ELSE <<>>

C1_UseExisting == [][C1_Selects /\ C1_End']_vars

\* Witness: after a rejected answer, the second of several candidates was
\* chosen, updated, and the PDF attached to it.
C1_Witness ==
    /\ Done
    /\ outcome = Returned
    /\ action = "use_existing"
    /\ PdfSupplied
    /\ Len(candidates) >= 2
    /\ selected = Some(candidates[2])
    /\ Len(Prompts) >= 3
    /\ AttachCalls = <<AttachTo(candidates[2].object_id)>>

(***************************************************************************)
(* The create path, shared by the run without candidates and the run in    *)
(* which the operator chose to create.                                     *)
(***************************************************************************)
\* Exactly one create call, made with the record and its serialization,
\* and no update call.
OneCreate ==
    /\ Len(CreateCalls) = 1
    /\ CreateCalls[1].record = record.val
    /\ CreateCalls[1].bibtex_entry = bibtex_entry
    /\ UpdateCalls = <<>>

\* The create call returned the id of the new object.
CreateReturned == ~FailedIn({"create_object"})

\* The attach calls of the create path: one, on the id returned by create,
\* when a PDF was supplied and create returned; none otherwise.
CreatePathAttach ==
    AttachCalls = IF PdfSupplied /\ CreateReturned
                  THEN <<AttachTo(NewObjectId)>> ELSE <<>>

\* find_duplicates returned, and returned no candidate.
NoCandidateFound ==
    /\ candidates = <<>>
    /\ \/ pc \in {"create", "upload", "attach"}
       \/ /\ Done
          /\ ~dry_run
          /\ ~record.none
          /\ ~FailedIn(SearchOps)

(***************************************************************************)
(* C2.  Zero candidates: when find_duplicates returns no candidate the     *)
(* run goes straight to the create, the operator is never prompted, and    *)
(* the finished run has made exactly one create call with the serialized   *)
(* record, no update call, and one attach call on the id returned by       *)
(* create when a PDF was supplied and create returned, none otherwise.     *)
(***************************************************************************)
C2_Direct == (Dispatch /\ candidates = <<>>) => pc' = "create"

C2_NoPrompt == NoCandidateFound => Prompts = <<>>

\* The claim as written: the attach call is made whenever a PDF was supplied.
C2_EndAsClaimed ==
    (Done /\ NoCandidateFound) =>
        /\ OneCreate
        /\ AttachCalls = IF PdfSupplied THEN <<AttachTo(NewObjectId)>> ELSE <<>>

C2_Original == [][C2_Direct /\ C2_NoPrompt' /\ C2_EndAsClaimed']_vars

C2_End == (Done /\ NoCandidateFound) => (OneCreate /\ CreatePathAttach)

C2_ZeroCandidates == [][C2_Direct /\ C2_NoPrompt' /\ C2_End']_vars

\* A run without candidates created the object and attached the PDF to it.
C2_Witness ==
    /\ Done /\ outcome = Returned
    /\ NoCandidateFound
    /\ Len(StoreRequests) >= 5
    /\ Len(CreateCalls) = 1
    /\ PdfSupplied
    /\ AttachCalls = <<AttachTo(NewObjectId)>>

(***************************************************************************)
(* C3.  Create chosen: when there are candidates and the operator answers  *)
(* 'c' or 'create', the decision is "create" and the run takes the create  *)
(* path exactly as a run without candidates does: one create call, no      *)
(* update call, the same attach calls, none of them on a candidate's id.   *)
(***************************************************************************)
CreateAnswers == { <<"c">>, <<"c", "r", "e", "a", "t", "e">> }

C3_Chosen ==
    pc = "menu" =>
        \A text \in OperatorInputs :
            (Lower(Strip(text)) \in CreateAnswers /\ PromptMenuOn(text))
                => (action' = "create" /\ pc' = "create" /\ selected' = None)

C3_End ==
    (Done /\ action = "create") =>
        /\ candidates # <<>>
        /\ OneCreate
        /\ CreatePathAttach
        /\ \A i \in 1..Len(AttachCalls) : \A n \in 1..Len(candidates) :
               AttachCalls[i].object_id # candidates[n].object_id

C3_CreateChosen == [][C3_Chosen /\ C3_End']_vars

\* The operator chose to create although there were candidates, and the PDF
\* went to the new object.
C3_Witness ==
    /\ Done /\ outcome = Returned
    /\ action = "create"
    /\ Len(candidates) >= 2
    /\ Len(CreateCalls) = 1 /\ UpdateCalls = <<>>
    /\ PdfSupplied
    /\ AttachCalls = <<AttachTo(NewObjectId)>>

(***************************************************************************)
(* C4.  Abort: when there are candidates and the operator answers 'a' or   *)
(* 'abort', the run ends there, without an error and without any create,   *)
(* update, file upload or attach.                                          *)
(***************************************************************************)
AbortAnswers == { <<"a">>, <<"a", "b", "o", "r", "t">> }

C4_Chosen ==
    pc = "menu" =>
        \A text \in OperatorInputs :
            (Lower(Strip(text)) \in AbortAnswers /\ PromptMenuOn(text))
                => (action' = "abort" /\ Done' /\ outcome' = Returned)

C4_NoMutation ==
    action = "abort" =>
        /\ candidates # <<>>
        /\ Done /\ outcome = Returned
        /\ calls = <<>>
        /\ \A i \in 1..Len(trace) : ~IsMutationOp(trace[i])

C4_Abort == [][C4_Chosen /\ C4_NoMutation']_vars

\* The operator aborted after a rejected answer.
C4_Witness ==
    /\ Done /\ action = "abort"
    /\ Len(Prompts) >= 2
    /\ Len(candidates) >= 1

(***************************************************************************)
(* C5.  Rejected answers: an answer to the menu prompt that is none of     *)
(* the accepted words, and an answer to the index prompt that is not a     *)
(* number or is a number outside 1..number of candidates, leave everything *)
(* as it was - no call to the publisher or the store, the same candidates  *)
(* and record, no failure - and the operator is asked the menu again.      *)
(***************************************************************************)
UseAnswers == { <<"u">>, <<"u", "s", "e">> }

RejectedAtMenu(text) ==
    Lower(Strip(text)) \notin (AbortAnswers \cup CreateAnswers \cup UseAnswers)

NonNumeric(text) == ~ParseInt(Strip(text)).ok

OutOfRange(text) ==
    /\ ParseInt(Strip(text)).ok
    /\ ParseInt(Strip(text)).value \notin 1..Len(candidates)

AsksAgain ==
    /\ pc' = "menu"
    /\ outcome' = Running
    /\ StoreRequests' = StoreRequests
    /\ Len(Prompts') = Len(Prompts) + 1
    /\ UNCHANGED <<inputs, returned, record, bibtex_entry, candidates, seen, action,
                   selected, object_id, file_id, calls, outcome>>

C5_Rejected ==
    /\ pc = "menu" =>
           \A text \in OperatorInputs :
               (RejectedAtMenu(text) /\ PromptMenuOn(text)) => AsksAgain
    /\ pc = "index" =>
           \A text \in OperatorInputs :
               ((NonNumeric(text) \/ OutOfRange(text)) /\ PromptIndexOn(text))
                   => AsksAgain

C5_Reprompt == [][C5_Rejected]_vars

\* The operator is at the menu again after an answer to the index prompt
\* was rejected, and nothing has been decided or sent.
C5_Witness ==
    /\ pc = "menu"
    /\ Len(Prompts) >= 2
    /\ trace[Len(trace)].op = "ask"
    /\ trace[Len(trace)].prompt = "Enter the number of the object to reuse: "
    /\ action = "none" /\ selected = None /\ calls = <<>>
    /\ outcome = Running

(***************************************************************************)
(* C6.  Order: the external operations of a run are issued one per step,   *)
(* in the order lookup, searches, prompts, create or update, upload,       *)
(* attach: nothing is sent to the store before the lookup has given the    *)
(* record, no search follows a prompt, the create or update follows the    *)
(* decision, and the upload and the attach follow a create or update that  *)
(* returned.                                                               *)
(***************************************************************************)
Phase(e) ==
    CASE e.op = "lookup" -> 1
      [] e.op \in SearchOps -> 2
      [] e.op = "ask" -> 3
      [] e.op \in {"create_object", "update_object"} -> 4
      [] e.op = "upload_file" -> 5
      [] e.op = "attach_file_to_object" -> 6

Issued(phase) == \E i \in 1..Len(trace) : Phase(trace[i]) = phase

C6_InOrder ==
    \A i, j \in 1..Len(trace) :
        i < j => /\ Phase(trace[i]) <= Phase(trace[j])
                 /\ Phase(trace[i]) = Phase(trace[j]) => Phase(trace[i]) \in {2, 3}

C6_Completed ==
    /\ (\E i \in 1..Len(trace) : Phase(trace[i]) > 1)
           => (Phase(trace[1]) = 1 /\ ~record.none /\ bibtex_entry # <<>>)
    /\ Issued(4) => IF candidates = <<>> THEN Prompts = <<>>
                    ELSE action \in {"create", "use_existing"}
    /\ Issued(3) => candidates # <<>>
    /\ Issued(5) => (Issued(4) /\ ~object_id.none)
    /\ Issued(6) => (Issued(5) /\ ~file_id.none)

\* A step issues at most one operation, after those already issued.
C6_OneAtATime ==
    \/ trace' = trace
    \/ /\ Len(trace') = Len(trace) + 1
       /\ SubSeq(trace', 1, Len(trace)) = trace

C6_FixedOrder == [][C6_OneAtATime /\ C6_InOrder' /\ C6_Completed']_vars

\* A run that went through every kind of operation.
C6_Witness ==
    /\ Done /\ outcome = Returned
    /\ \A phase \in 1..6 : Issued(phase)
    /\ Len(trace) >= 7

(***************************************************************************)
(* C7.  Validation: with a DOI that is empty or only whitespace, or with   *)
(* a PDF path that does not exist, the run fails with a PipelineError      *)
(* before any lookup, search, create, update, upload, attach or prompt.    *)
(***************************************************************************)
EmptyDoi == Strip(doi) = <<>>
MissingFile == (~pdf.none) /\ ~Exists(pdf.val)

C7_FatalBeforeAnyCall ==
    (EmptyDoi \/ MissingFile) =>
        /\ trace = <<>>
        /\ calls = <<>>
        /\ record = None
        /\ pc \in {"start", "fetch", "done"}
        /\ pc = "fetch" => ~MissingFile
        /\ Done => (outcome.k = "raised" /\ outcome.type = "PipelineError")

\* A run given a DOI of blanks and an existing PDF ended with the error.
C7_Witness ==
    /\ Done
    /\ doi # <<>> /\ EmptyDoi
    /\ PdfSupplied /\ ~MissingFile
    /\ outcome = Raised("PipelineError", <<"DOI cannot be empty.">>,
                        "MetadataRetrievalError")
    /\ trace = <<>>

(***************************************************************************)
(* C8.  Store failures, as claimed: a run that ends with an exception      *)
(* raised by a search, create, update, upload or attach ends with a        *)
(* PipelineError made from an AnytypeAPIError, and that operation is the   *)
(* last one issued.                                                        *)
(***************************************************************************)
C8_AsClaimed ==
    FailedIn(StoreOps) =>
        /\ outcome.type = "PipelineError"
        /\ outcome.cause = "AnytypeAPIError"

(***************************************************************************)
(* C9.  Metadata failures, as claimed: a run that ends without a record    *)
(* after the lookup was issued ends with a PipelineError made from a       *)
(* MetadataRetrievalError, and nothing was sent to the store.              *)
(***************************************************************************)
C9_AsClaimed ==
    (Done /\ record = None /\ trace # <<>>) =>
        /\ StoreRequests = <<>>
        /\ outcome.k = "raised"
        /\ outcome.type = "PipelineError"
        /\ outcome.cause = "MetadataRetrievalError"

(***************************************************************************)
(* C10.  Candidates: after each search of find_duplicates the object ids   *)
(* of the candidates are the ids returned so far, each once, at the place  *)
(* of its first occurrence; so they are pairwise distinct.                 *)
(***************************************************************************)
Ids(cands) == [i \in DOMAIN cands |-> cands[i].object_id]

RawIds(raw_objects) == [i \in DOMAIN raw_objects |-> object_id_of(raw_objects[i])]

\* s without the elements that occur earlier in s.
RECURSIVE FirstOccurrences(_)
FirstOccurrences(s) ==
    IF s = <<>> THEN <<>>
    ELSE LET front == SubSeq(s, 1, Len(s) - 1)
             last == s[Len(s)]
         IN  IF \E j \in 1..Len(front) : front[j] = last
             THEN FirstOccurrences(front)
             ELSE Append(FirstOccurrences(front), last)

C10_After(request, next, response) ==
    (SearchOn(request, next, response) /\ search_result(response).ok)
        => Ids(candidates') =
               FirstOccurrences(Ids(candidates)
                                \o RawIds(search_result(response).value))

C10_Tiers ==
    /\ pc = "tier1" =>
           \A response \in SearchResponses(DoiSearchLimit) :
               C10_After(DoiRequest, "tier2", response)
    /\ pc = "tier2" =>
           \A order \in Orderings(author_last_names(record.val)) :
           \A response \in SearchResponses(AuthorSearchLimit) :
               C10_After(AuthorsRequest(order), "tier3", response)
    /\ pc = "tier3" =>
           \A response \in SearchResponses(TitleSearchLimit) :
               C10_After(TitleRequest, "found", response)

C10_Distinct ==
    /\ \A i, j \in 1..Len(candidates) :
           i # j => candidates[i].object_id # candidates[j].object_id
    /\ seen = {candidates[i].object_id : i \in 1..Len(candidates)}

C10_FirstOccurrence == [][C10_Tiers /\ C10_Distinct']_vars

\* find_duplicates returned two candidates or more after the search on the
\* authors had returned an id again.
C10_Witness ==
    /\ pc = "found"
    /\ Len(candidates) >= 2
    /\ Len(StoreRequests) = 2
    /\ StoreRequests[2].op = "search_by_text"
    /\ StoreRequests[2].repeat

(***************************************************************************)
(* C11.  Citation key: citation_key() is what is left of the accent-folded *)
(* family name of the first author ("unknown" without authors), followed   *)
(* by the decimal year and the first alphanumeric run of the title         *)
(* ("Title" without one), once every character outside [A-Za-z0-9] is      *)
(* deleted; it has only such characters and does not depend on the doi or  *)
(* the journal.                                                            *)
(***************************************************************************)
Alnums(s) == SelectSeq(s, IsAlnum)

\* The family name with every accented letter replaced by its base letter.
Folded(family) == [i \in DOMAIN family |-> NfdBase(family[i])]

\* The first maximal run of alphanumeric characters of s, by its bounds.
FirstRun(s) ==
    LET starts == {i \in 1..Len(s) : IsAlnum(s[i])} IN
    IF starts = {} THEN <<"T", "i", "t", "l", "e">>
    ELSE LET a == CHOOSE i \in starts : \A k \in starts : i <= k
             ends == {j \in a..Len(s) : \A k \in a..j : IsAlnum(s[k])}
             b == CHOOSE j \in ends : \A k \in ends : k <= j
         IN  SubSeq(s, a, b)

ExpectedKey(r) ==
    Alnums((IF r.authors = <<>> THEN <<"u", "n", "k", "n", "o", "w", "n">>
            ELSE Folded(r.authors[1].family))
           \o IntStr(r.year) \o FirstRun(r.title))

C11_CitationKey ==
    pc = "citation_key" =>
        /\ returned = Some(ExpectedKey(record.val))
        /\ \A i \in 1..Len(returned.val) : IsAlnum(returned.val[i])
        /\ \A d \in {Doi1, Doi2, <<>>} : \A j \in {None, Some(Journal1), Some(Title1)} :
               Some(citation_key([record.val EXCEPT !.doi = d, !.journal = j]))
                   = returned

\* The key of a record whose first author has an accent in the family name
\* and whose title starts with punctuation.
C11_Witness ==
    /\ pc = "citation_key"
    /\ Len(record.val.authors) = 2
    /\ record.val.authors[1].family = Garcia
    /\ record.val.title = <<" ", "-", "Q", "2", ".", "f">>
    /\ record.val.year = 2024
    /\ returned = Some(<<"G","a","r","c","i","a","2","0","2","4","Q","2">>)

(***************************************************************************)
(* C12.  BibTeX: generate_bibtex gives the header "@type{key,", then one   *)
(* line "  name = {value}" for each field that has a value, in the order   *)
(* title, author, year, doi, journal, publisher - the title in double      *)
(* braces, the author only with authors, the doi and the journal only when *)
(* not empty, the publisher only when present in a book - each line but    *)
(* the last followed by a comma, then the closing brace.                   *)
(***************************************************************************)
\* The six fields in their order, each with whether it is emitted.
FieldTable(r) ==
    << [name |-> "title", emitted |-> TRUE,
        value |-> <<"{", "{", " ">> \o r.title \o <<" ", "}", "}">>],
       [name |-> "author", emitted |-> r.authors # <<>>,
        value |-> formatted_authors(r)],
       [name |-> "year", emitted |-> TRUE, value |-> IntStr(r.year)],
       [name |-> "doi", emitted |-> r.doi # <<>>, value |-> r.doi],
       [name |-> "journal", emitted |-> Truthy(r.journal),
        value |-> IF r.journal.none THEN <<>> ELSE r.journal.val],
       [name |-> "publisher",
        emitted |-> Truthy(r.publisher) /\ r.entry_type = "book",
        value |-> IF r.publisher.none THEN <<>> ELSE r.publisher.val] >>

IsEmitted(f) == f.emitted

\* The text of the lines from the n-th on, each ended by its separator.
RECURSIVE FieldText(_, _)
FieldText(fields, n) ==
    IF n > Len(fields) THEN <<>>
    ELSE <<" ", " ", fields[n].name, " ", "=", " ", "{">> \o fields[n].value
         \o <<"}">> \o (IF n < Len(fields) THEN <<",">> ELSE <<>>) \o <<"\n">>
         \o FieldText(fields, n + 1)

ExpectedBibtex(r) ==
    <<"@", r.entry_type, "{">> \o citation_key(r) \o <<",", "\n">>
    \o FieldText(SelectSeq(FieldTable(r), IsEmitted), 1) \o <<"}">>

C12_Bibtex ==
    pc = "generate_bibtex" => returned = Some(ExpectedBibtex(record.val))

\* The entry of a book without authors, doi and journal: the publisher is
\* the last line.
C12_Witness ==
    /\ pc = "generate_bibtex"
    /\ record.val.authors = <<>> /\ record.val.doi = <<>>
    /\ record.val.journal = None
    /\ record.val.entry_type = "book" /\ record.val.publisher = Some(Publisher1)
    /\ returned = Some(<<"@", "book", "{">> \o <<"u","n","k","n","o","w","n","2","0","2","4","O","n",",","\n">>
               \o <<" "," ","title"," ","="," ","{","{","{"," ","O","n"," ","x","2"," ","}","}","}",",","\n">>
               \o <<" "," ","year"," ","="," ","{","2","0","2","4","}",",","\n">>
               \o <<" "," ","publisher"," ","="," ","{","M","I","T","}","\n","}">>)

(***************************************************************************)
(* C13.  Dry run: with dry_run set the run does the lookup and the         *)
(* serialization and nothing else: no search, create, update, upload or    *)
(* attach is sent to the store, no call is made on the publisher and the   *)
(* operator is never prompted, whatever the lookup returns.                *)
(***************************************************************************)
C13_DryRun ==
    dry_run =>
        /\ StoreRequests = <<>>
        /\ Prompts = <<>>
        /\ calls = <<>>
        /\ \A i \in 1..Len(trace) : trace[i].op = "lookup"
        /\ pc \in {"start", "fetch", "bibtex", "done"}
        /\ (Done /\ ~record.none) =>
               (outcome = Returned /\ bibtex_entry # <<>> /\ Len(trace) = 1)

\* A dry run that ended after the lookup and the serialization.
C13_Witness ==
    /\ dry_run /\ Done /\ outcome = Returned
    /\ PdfSupplied
    /\ ~record.none /\ record.val.authors # <<>>
    /\ bibtex_entry # <<>>
    /\ Len(trace) = 1 /\ trace[1].op = "lookup"

(***************************************************************************)
(* C14.  Search tiers: find_duplicates issues, in this order and each at   *)
(* most once, the search on the DOI property (limit 5) exactly when the    *)
(* doi is not empty; then, when that search returned or was not run, the   *)
(* text search on the folded, lower-cased family names (limit 5) exactly   *)
(* when there is such a name, whatever the first search found; then the    *)
(* text search on the title (limit 3) exactly when no candidate was found  *)
(* so far and the title is not empty.                                      *)
(***************************************************************************)
\* The folded, lower-cased family name of an author.
SearchName(author) ==
    LET folded == SelectSeq(Folded(author.family), IsAscii) IN
    Lower(IF folded = <<>> THEN author.family ELSE folded)

SearchNames == {SearchName(record.val.authors[i]) : i \in DOMAIN record.val.authors}

IsDoiSearch(e) ==
    /\ e.op = "search_by_property"
    /\ e.property_key = "doi"
    /\ e.value = record.val.doi
    /\ e.limit = 5

IsAuthorSearch(e) ==
    /\ e.op = "search_by_text"
    /\ e.limit = 5
    /\ \E order \in Orderings(SearchNames) : e.query = Join(<<" ">>, order)

IsTitleSearch(e) ==
    /\ e.op = "search_by_text"
    /\ e.limit = 3
    /\ e.query = record.val.title

\* This step sent one request, the last of the trace after it.
Sends == Len(trace') = Len(trace) + 1 /\ SubSeq(trace', 1, Len(trace)) = trace

C14_Steps ==
    /\ pc = "tier1" =>
           /\ pc' \in {"tier2", "done"}
           /\ IF record.val.doi # <<>>
              THEN Sends /\ IsDoiSearch(trace'[Len(trace')])
              ELSE trace' = trace /\ pc' = "tier2"
    /\ pc = "tier2" =>
           /\ pc' \in {"tier3", "done"}
           /\ IF SearchNames # {}
              THEN Sends /\ IsAuthorSearch(trace'[Len(trace')])
              ELSE trace' = trace /\ pc' = "tier3"
    /\ pc = "tier3" =>
           /\ pc' \in {"found", "done"}
           /\ IF candidates = <<>> /\ record.val.title # <<>>
              THEN Sends /\ IsTitleSearch(trace'[Len(trace')])
              ELSE trace' = trace /\ pc' = "found"
    /\ pc \notin {"tier1", "tier2", "tier3"} =>
           (trace' = trace \/ trace'[Len(trace')].op \notin SearchOps)

\* The searches of the trace: at most one of each kind, in the order of
\* the tiers.
Tier(e) ==
    CASE e.op = "search_by_property" -> 1
      [] e.op = "search_by_text" /\ e.limit = 5 -> 2
      [] e.op = "search_by_text" /\ e.limit = 3 -> 3
      [] OTHER -> 0

TierIssued(n) == \E i \in 1..Len(trace) : Tier(trace[i]) = n

C14_InOrder ==
    \A i, j \in 1..Len(trace) :
        (i < j /\ Tier(trace[i]) > 0 /\ Tier(trace[j]) > 0)
            => Tier(trace[i]) < Tier(trace[j])

\* find_duplicates was entered and is over.
AfterSearches == ~dry_run /\ ~record.none
                 /\ pc \notin {"bibtex", "tier1", "tier2", "tier3"}

\* The claim as written: the search on the names is run whenever there is
\* a name.
C14_EndAsClaimed ==
    AfterSearches =>
        /\ record.val.doi # <<>> <=> TierIssued(1)
        /\ record.val.authors # <<>> <=> TierIssued(2)

C14_Original == [][C14_Steps /\ C14_InOrder' /\ C14_EndAsClaimed']_vars

C14_End ==
    AfterSearches =>
        /\ record.val.doi # <<>> <=> TierIssued(1)
        /\ (record.val.authors # <<>> /\ ~FailedIn({"search_by_property"}))
               <=> TierIssued(2)

C14_Tiers == [][C14_Steps /\ C14_InOrder' /\ C14_End']_vars

\* find_duplicates returned after the three searches: the first two found
\* nothing and the search on the title found a candidate.
C14_Witness ==
    /\ pc = "found"
    /\ Len(StoreRequests) = 3
    /\ IsDoiSearch(StoreRequests[1])
    /\ IsAuthorSearch(StoreRequests[2])
    /\ IsTitleSearch(StoreRequests[3])
    /\ candidates # <<>>

(***************************************************************************)
(* C15.  Missing id, as claimed: a raw result without an object id gives   *)
(* no candidate, so every candidate carries an object id that some raw     *)
(* result had.                                                             *)
(***************************************************************************)
\* The object ids that the raw objects of the store carry.
PresentIds == {Get(obj, "id").v : obj \in {o \in RawObjects : Get(o, "id").k # "null"}}

C15_AsClaimed ==
    \A i \in 1..Len(candidates) : candidates[i].object_id \in PresentIds

(***************************************************************************)
(* C16.  Year, as claimed: when the first candidate field present in the   *)
(* message (published-print, published-online, issued, in this order) has  *)
(* a year as the first component of its date-parts, that year is returned; *)
(* when no candidate field has one, the extraction fails with              *)
(* MetadataRetrievalError.                                                 *)
(***************************************************************************)
\* The date field has a year as the first component of its date-parts.
HasYear(field) ==
    /\ field.k = "dict"
    /\ Get(field, "date-parts").k = "list"
    /\ Get(field, "date-parts").v # <<>>
    /\ Get(field, "date-parts").v[1].k = "list"
    /\ Get(field, "date-parts").v[1].v # <<>>
    /\ Get(field, "date-parts").v[1].v[1].k = "int"

YearIn(field) == Get(field, "date-parts").v[1].v[1].v

ExpectedYear(message, result) ==
    LET present == {i \in 1..Len(YearKeys) : YearKeys[i] \in DOMAIN message.v}
        withYear == {i \in present : HasYear(message.v[YearKeys[i]])}
    IN  IF withYear = {}
        THEN (~result.ok) /\ result.type = "MetadataRetrievalError"
        ELSE LET first == CHOOSE i \in present : \A j \in present : i <= j IN
             first \in withYear
                 => result = Ok(YearIn(message.v[YearKeys[first]]))

C16_AsClaimed ==
    [][pc = "record" =>
           \A message \in YearMessages :
               CallExtractYearOn(message) => ExpectedYear(message, returned'.val)]_vars

(***************************************************************************)
(* C18.  No rollback: when the create or update succeeded and the upload   *)
(* or the attach then fails, the run ends there with an error; the store   *)
(* has received exactly one create or update request, one upload request   *)
(* and at most one attach request, the failed request is the last one      *)
(* sent, and no deletion was requested.                                    *)
(***************************************************************************)
IsObjectWrite(e) == e.op \in {"create_object", "update_object"}
IsUpload(e) == e.op = "upload_file"
IsAttachRequest(e) == e.op = "attach_file_to_object"

\* The run ended with an error after the upload had been requested.
AttachmentFailed ==
    /\ Done
    /\ outcome.k = "raised"
    /\ SelectSeq(trace, IsUpload) # <<>>

C18_Left ==
    AttachmentFailed =>
        /\ ~object_id.none
        /\ Len(SelectSeq(trace, IsObjectWrite)) = 1
        /\ Len(SelectSeq(trace, IsUpload)) = 1
        /\ Len(SelectSeq(trace, IsAttachRequest)) <= 1
        /\ trace[Len(trace)].op \in {"upload_file", "attach_file_to_object"}
        /\ \A i \in 1..Len(trace) :
               trace[i].op \in StoreOps \cup {"lookup", "ask"}
        /\ Len(CreateCalls) + Len(UpdateCalls) = 1
        /\ AttachCalls = <<AttachTo(object_id.val)>>

\* The upload and the attach are each tried once, and nothing follows the
\* end of the run.
C18_Once ==
    /\ pc = "upload" => pc' \in {"attach", "done"}
    /\ pc = "attach" => pc' = "done"
    /\ pc = "done" => UNCHANGED vars

C18_NoRollback == [][C18_Once /\ C18_Left']_vars

\* The object was created, the upload succeeded and the attach failed.
C18_Witness ==
    /\ AttachmentFailed
    /\ Len(CreateCalls) = 1
    /\ ~file_id.none
    /\ trace[Len(trace)].op = "attach_file_to_object"

(***************************************************************************)
(* C19.  Authors round trip, as claimed: the authors value written by      *)
(* _build_fields, read back by the candidate mapping with the same         *)
(* separator, is the sequence of the display names of the record's authors *)
(* in citation order: the empty sequence for a record without authors.     *)
(* No display name of the records drawn contains the separator or " and ". *)
(***************************************************************************)
DisplayNames(r) == [i \in DOMAIN r.authors |-> display_name(r.authors[i])]

C19_AsClaimed ==
    pc = "read_back" => returned.val.authors = DisplayNames(record.val)

(***************************************************************************)
(* C17.  Termination of the decision loop: when the operator eventually    *)
(* gives a valid answer, every run that reaches the menu prompt eventually *)
(* reaches exactly one of the decisions abort, create and update of an     *)
(* existing object; and once the decision is taken the action is kept and  *)
(* the operator is not prompted again.                                     *)
(***************************************************************************)
AwaitDecision == pc \in {"menu", "index"}

Aborted == pc = "done" /\ action = "abort"
CreateDecided == pc = "create" /\ action = "create"
UpdateExisting == pc = "update" /\ action = "use_existing" /\ ~selected.none

Decided == Aborted \/ CreateDecided \/ UpdateExisting

\* After the decision: no prompt, and the decision stands.
C17_Final ==
    (pc \in {"create", "update", "upload", "attach", "done"})
        => /\ ~AwaitDecision'
           /\ action' = action
           /\ selected' = selected
           /\ Prompts' = Prompts

C17_Terminates ==
    /\ AwaitDecision ~> Decided
    /\ [][C17_Final]_vars

\* The update was decided by the last recorded answer, after an answer
\* that was rejected or a return from the index prompt.
C17_Witness ==
    /\ UpdateExisting
    /\ Len(Prompts) = MaxPrompts
====
